---- MODULE Spec2Model ----
(***************************************************************************)
(* client-lens: comment threading, comment pins, per-project comment       *)
(* statistics and the project_views ledger.                                *)
(*                                                                         *)
(*   server/storage.ts   DatabaseStorage (comments, files, project_views,  *)
(*                       getProjectsWithCommentStats)                      *)
(*   server/routes.ts    the HTTP handlers that call it                    *)
(*   shared/schema.ts    the tables and insertCommentSchema                *)
(*   client/src/lib/commentUtils.ts   buildCommentTree                     *)
(*   client/src/components            ImageWithComments, PDFWithComments,  *)
(*                       VideoWithComments, ThreadedCommentList,           *)
(*                       CommentSidebar, ProjectAssetDetail, CommentModal  *)
(*                                                                         *)
(* Time is a logical clock read by `new Date()` and by the tables'         *)
(* defaultNow(); 0 is the epoch (new Date(0)).  Row ids (gen_random_uuid)  *)
(* are unique and never reused: files and comments draw them from a       *)
(* counter, a project_views row is named after the call that inserted it.  *)
(***************************************************************************)
EXTENDS Integers, Sequences, FiniteSets, TLC

VARIABLES
    now,            \* the clock
    files,          \* table files: set of [id, projectId, mimeType]
    nextFileId,     \* ids handed out by files.id's default
    comments,       \* table comments: set of [id, fileId, parentId, name, content, tag,
                    \* positionX, positionY, timestamp, page, createdAt]
    nextCommentId,  \* ids handed out by comments.id's default
    projectViews,   \* table project_views: set of [id, userId, projectId, lastViewedAt]
    upv,            \* updateProjectView calls: call -> [pc, userId, projectId, existingView,
                    \* lastViewedAt]
    agg,            \* the getProjectsWithCommentStats call: [pc, userId, pipes]
    stats,          \* what the getProjectsWithCommentStats call returned, once it has
    treeInput,      \* the flat array handed to buildCommentTree
    treeOutput,     \* what buildCommentTree returned: [roots, replies] or Null
    res,            \* a comment route's answer the client has not read yet:
                    \* [route, id (of the comment created or to delete), status]
    viewComments,   \* the Comment[] of one file the viewer components render
    currentPage,    \* PDFWithComments' state currentPage
    screen,         \* what the components have rendered from viewComments
    projectsQuery,  \* the client's query ["/api/projects"]: "fresh" once fetched,
                    \* "stale" before that and once invalidated
    modal           \* ProjectAssetDetail's state modal: [open, xPercent, yPercent]

vars == <<now, files, nextFileId, comments, nextCommentId, projectViews,
          upv, agg, stats, treeInput, treeOutput, res, viewComments, currentPage, screen,
          projectsQuery, modal>>

storeVars == <<files, nextFileId, comments, nextCommentId>>
ledgerVars == <<projectViews, upv>>
aggVars == <<agg, stats>>
treeVars == <<treeInput, treeOutput>>
viewVars == <<viewComments, currentPage, screen>>
clientVars == <<projectsQuery, modal>>

----------------------------------------------------------------------------
(* Bounds                                                                  *)

MaxTime == 3
MaxCalls == 2
MaxFiles == 2
MaxComments == 2
MaxAggComments == 3
MaxAggTime == 2
MaxTreeLen == 3
MaxTreeTime == 2
MaxViewLen == 3
MaxViewTime == 2
MaxPage == 2

----------------------------------------------------------------------------
(* Values                                                                  *)

Null == "null"
Epoch == 0
NoId == 0

\* routes.ts: const userId = "user-1"; // Hardcoded user
RouteUser == "user-1"
ProjectIds == {"p1", "p2"}

\* table projects: both projects belong to the hardcoded user of routes.ts
projects == {[id |-> "p1", userId |-> "user-1"], [id |-> "p2", userId |-> "user-1"]}

Tags == {"To Do", "In Progress", "Resolved"}

\* buildCommentTree not called yet
NoTree == [roots |-> <<>>, replies |-> <<>>, threw |-> FALSE, called |-> FALSE]

\* no answer of a comment route is waiting to be read
NoAnswer == [route |-> Null, id |-> NoId, status |-> 0]

\* the viewer components have not rendered yet
NoScreen == [rendered |-> FALSE]

\* null, in an integer column (position_x, position_y, timestamp, page), and
\* undefined where a number is expected
NullInt == -1

\* React.useState({ open: false }): xPercent and yPercent undefined
NoModal == [open |-> FALSE, xPercent |-> NullInt, yPercent |-> NullInt]

----------------------------------------------------------------------------
(* The project_views ledger                                                *)

\* select().from(projectViews).where(userId = u and projectId = p)
ViewRows(u, p) == {v \in projectViews : v.userId = u /\ v.projectId = p}

\* `undefined` where a ProjectView row is expected
NoView == [id |-> <<>>, userId |-> Null, projectId |-> Null, lastViewedAt |-> Epoch]

\* the truthiness of `view`
IsView(view) == view.userId # Null

\* getProjectView: `const [view] = await db.select()...; return view || undefined`.
\* The select has no ORDER BY, so with several matching rows the first one is
\* any of them: the set of values the call may return.
GetProjectView(u, p) == IF ViewRows(u, p) = {} THEN {NoView} ELSE ViewRows(u, p)

IdleCall == [pc |-> "idle", userId |-> Null, projectId |-> Null, existingView |-> FALSE,
             lastViewedAt |-> Epoch]

\* updateProjectView, from its start until its write is sent to the database:
\* existingView = await getProjectView(..) resolves, and the call builds its
\* update or insert, whose lastViewedAt is the `new Date()` of this moment
UpdateProjectViewRead(c, u, p) ==
    /\ upv[c].pc # "write"
    /\ \E view \in GetProjectView(u, p) :
          upv' = [upv EXCEPT ![c] = [pc |-> "write", userId |-> u, projectId |-> p,
                                     existingView |-> IsView(view),
                                     lastViewedAt |-> now]]
    /\ UNCHANGED <<now, projectViews, storeVars, aggVars, treeVars, res, viewVars, clientVars>>

\* the update that forgets to set lastViewedAt
UpdatedRowsStale(u, p, lastViewedAt) == projectViews

\* the update whose where clause forgets the project
UpdatedRowsOfUser(u, p, lastViewedAt) ==
    {IF v.userId = u THEN [v EXCEPT !.lastViewedAt = lastViewedAt] ELSE v
       : v \in projectViews}

\* db.update(projectViews).set({lastViewedAt}).where(userId = u and
\* projectId = p).returning(), lastViewedAt being the call's `new Date()`
UpdatedRows(u, p, lastViewedAt) ==
    {IF v.userId = u /\ v.projectId = p THEN [v EXCEPT !.lastViewedAt = lastViewedAt] ELSE v
       : v \in projectViews}

\* db.insert(projectViews).values({userId, projectId, lastViewedAt}), by call
\* c: a call inserts at most one row for a pair, since every later read of the
\* pair finds a row
InsertedRow(c, u, p, lastViewedAt) ==
    [id |-> <<c, u, p>>, userId |-> u, projectId |-> p, lastViewedAt |-> lastViewedAt]

\* updateProjectView's update or insert is applied by the database: the
\* branch on existingView
UpdateProjectViewWrite(c) ==
    /\ upv[c].pc = "write"
    /\ LET u == upv[c].userId
           p == upv[c].projectId
       IN IF upv[c].existingView
          THEN projectViews' = UpdatedRows(u, p, upv[c].lastViewedAt)
          ELSE projectViews' = projectViews \cup {InsertedRow(c, u, p, upv[c].lastViewedAt)}
    /\ upv' = [upv EXCEPT ![c].pc = "done"]
    /\ UNCHANGED <<now, storeVars, aggVars, treeVars, res, viewVars, clientVars>>

----------------------------------------------------------------------------
(* Files and comments                                                      *)

\* createFile: db.insert(files).values(insertFile); projectId and mimeType are
\* any strings
CreateFile(p, mimeType) ==
    /\ nextFileId <= MaxFiles
    /\ files' = files \cup {[id |-> nextFileId, projectId |-> p, mimeType |-> mimeType]}
    /\ nextFileId' = nextFileId + 1
    /\ UNCHANGED <<now, comments, nextCommentId, ledgerVars, aggVars, treeVars, res, viewVars, clientVars>>

\* deleteFile: db.delete(files).where(id = f); the file's comments stay
DeleteFile(f) ==
    /\ files' = {x \in files : x.id # f}
    /\ UNCHANGED <<now, nextFileId, comments, nextCommentId, ledgerVars, aggVars, treeVars, res, viewVars, clientVars>>

\* the row insert(comments).values(insertComment) stores: id and createdAt come
\* from the column defaults, tag from its default "To Do" when not given, and
\* an anchor column that is not given is null
NewComment(insertComment) ==
    [id |-> nextCommentId, fileId |-> insertComment.fileId,
     parentId |-> insertComment.parentId,
     name |-> insertComment.name, content |-> insertComment.content,
     tag |-> IF insertComment.tag = Null THEN "To Do" ELSE insertComment.tag,
     positionX |-> insertComment.positionX, positionY |-> insertComment.positionY,
     timestamp |-> insertComment.timestamp, page |-> insertComment.page,
     createdAt |-> now]

\* the insert that also stamps the file's other comments with the current time
CreateCommentRestamping(insertComment) ==
    /\ nextCommentId <= MaxComments
    /\ comments' = {IF c.fileId = insertComment.fileId THEN [c EXCEPT !.createdAt = now] ELSE c
                      : c \in comments} \cup {NewComment(insertComment)}
    /\ nextCommentId' = nextCommentId + 1
    /\ UNCHANGED <<now, files, nextFileId, ledgerVars, aggVars, treeVars, viewVars, clientVars>>

\* createComment: db.insert(comments).values(insertComment).returning()
CreateComment(insertComment) ==
    /\ nextCommentId <= MaxComments
    /\ comments' = comments \cup {NewComment(insertComment)}
    /\ nextCommentId' = nextCommentId + 1
    /\ UNCHANGED <<now, files, nextFileId, ledgerVars, aggVars, treeVars, viewVars, clientVars>>

\* the delete that takes the replies of the comment with it
DeleteCommentThread(c) ==
    /\ comments' = {x \in comments : x.id # c /\ x.parentId # c}
    /\ UNCHANGED <<now, files, nextFileId, nextCommentId, ledgerVars, aggVars, treeVars, viewVars, clientVars>>

\* deleteComment: db.delete(comments).where(id = c); replies stay, and a
\* delete that matches no row is no error
DeleteComment(c) ==
    /\ comments' = {x \in comments : x.id # c}
    /\ UNCHANGED <<now, files, nextFileId, nextCommentId, ledgerVars, aggVars, treeVars, viewVars, clientVars>>

\* insertCommentSchema.safeParse(body): fileId, name and content are notNull
\* columns without a default, so each must be a string, of any length; the
\* other fields are optional
SafeParse(body) ==
    [success |-> body.fileId # NoId /\ body.name # Null /\ body.content # Null,
     data |-> body]

\* the handler of POST /api/comments and, with commentData for body, of
\* POST /api/files/:fileId/comments, from safeParse on
ValidateAndCreate(route, body) ==
    LET validation == SafeParse(body)
    IN IF ~validation.success
       THEN /\ res' = [route |-> route, id |-> NoId, status |-> 400]
            /\ UNCHANGED <<now, storeVars, ledgerVars, aggVars, treeVars, viewVars, clientVars>>
       ELSE /\ CreateComment(validation.data)
            /\ res' = [route |-> route, id |-> nextCommentId, status |-> 201]

\* POST /api/comments
PostComments(body) == ValidateAndCreate("POST /api/comments", body)

\* POST /api/files/:fileId/comments: commentData = { ...req.body, fileId }
PostFileComments(fileId, body) ==
    ValidateAndCreate("POST /api/files/:fileId/comments", [body EXCEPT !.fileId = fileId])

\* DELETE /api/comments/:id
DeleteComments(id) ==
    /\ DeleteComment(id)
    /\ res' = [route |-> "DELETE /api/comments/:id", id |-> id, status |-> 200]

\* the client reads the answer of its request; after a 201 the mutation's
\* onSuccess runs: it invalidates ["comments", fileId], no other query, and
\* closes the modal (onOpenChange(false), which keeps xPercent and yPercent)
ReadAnswer ==
    /\ res # NoAnswer
    /\ res' = NoAnswer
    /\ modal' = IF res.status = 201 THEN [modal EXCEPT !.open = FALSE] ELSE modal
    /\ UNCHANGED <<now, storeVars, ledgerVars, aggVars, treeVars, viewVars, projectsQuery>>

----------------------------------------------------------------------------
(* getProjectsWithCommentStats                                             *)

\* the arrays a select may return for the rows S: every order of them
Orders(S) ==
    {s \in [1..Cardinality(S) -> S] : \A i, j \in 1..Cardinality(S) : i # j => s[i] # s[j]}

\* getProjectsByUserId: projects where userId = u
GetProjectsByUserId(u) == {p \in projects : p.userId = u}

\* getFilesByProjectId: files where projectId = p, orderBy(desc(uploadedAt));
\* upload times are not part of the rows kept here, so any order is possible
GetFilesByProjectId(p) == Orders({f \in files : f.projectId = p})

\* the select that forgets its where clause
GetCommentsOfAnyFile(f) ==
    {s \in Orders(comments) :
        \A i, j \in 1..Len(s) : i < j => s[i].createdAt >= s[j].createdAt}

\* getCommentsByFileId: comments where fileId = f, orderBy(desc(createdAt));
\* rows of equal createdAt come in any order
GetCommentsByFileId(f) ==
    {s \in Orders({c \in comments : c.fileId = f}) :
        \A i, j \in 1..Len(s) : i < j => s[i].createdAt >= s[j].createdAt}

\* allComments.flat(): the arrays allComments[1..n], concatenated
RECURSIVE Flat(_, _)
Flat(allComments, n) ==
    IF n = 0 THEN <<>> ELSE Flat(allComments, n - 1) \o allComments[n]

\* flatComments.length
TotalComments(flatComments) == Len(flatComments)

\* the count taken from the table as it is now, not from the fetched arrays
UnresolvedCommentsOfTable(flatComments) ==
    Cardinality({c \in comments : c.tag = "To Do" \/ c.tag = "In Progress"})

\* the count that forgets the "In Progress" comments
UnresolvedCommentsToDoOnly(flatComments) ==
    Len(SelectSeq(flatComments, LAMBDA c : c.tag = "To Do"))

\* flatComments.filter(c => c.tag === "To Do" || c.tag === "In Progress").length
UnresolvedComments(flatComments) ==
    Len(SelectSeq(flatComments, LAMBDA c : c.tag = "To Do" \/ c.tag = "In Progress"))

\* Math.max(...times), over a non-empty array
RECURSIVE MathMax(_)
MathMax(times) ==
    IF Len(times) = 1 THEN times[1]
    ELSE LET m == MathMax(Tail(times))
         IN IF times[1] > m THEN times[1] ELSE m

\* null, where a Date is expected
NoTime == -1

\* the time of the comment fetched first instead of the greatest one
LastCommentTimeOfFirst(flatComments) ==
    IF Len(flatComments) > 0 THEN flatComments[1].createdAt ELSE NoTime

\* the time that is the epoch, not null, when there is no comment
LastCommentTimeOrEpoch(flatComments) ==
    IF Len(flatComments) > 0
    THEN MathMax([i \in 1..Len(flatComments) |-> flatComments[i].createdAt])
    ELSE Epoch

\* flatComments.length > 0 ? new Date(Math.max(...createdAt times)) : null
LastCommentTime(flatComments) ==
    IF Len(flatComments) > 0
    THEN MathMax([i \in 1..Len(flatComments) |-> flatComments[i].createdAt])
    ELSE NoTime

\* the lookup that never finds the row
LastViewedAtEpoch(projectView) == Epoch

\* projectView?.lastViewedAt || new Date(0)
LastViewedAt(projectView) ==
    IF IsView(projectView) THEN projectView.lastViewedAt ELSE Epoch

\* the comparison that counts a comment created at lastViewedAt as unread
HasUnreadCommentsInclusive(flatComments, lastViewedAt) ==
    \E i \in 1..Len(flatComments) : flatComments[i].createdAt >= lastViewedAt

\* flatComments.some(c => new Date(c.createdAt) > lastViewedAt)
HasUnreadComments(flatComments, lastViewedAt) ==
    \E i \in 1..Len(flatComments) : flatComments[i].createdAt > lastViewedAt

\* the object one project's callback returns
ProjectStats(projectFiles, flatComments, projectView) ==
    [fileCount |-> Len(projectFiles),
     totalComments |-> TotalComments(flatComments),
     unresolvedComments |-> UnresolvedComments(flatComments),
     lastCommentTime |-> LastCommentTime(flatComments),
     hasUnreadComments |-> HasUnreadComments(flatComments, LastViewedAt(projectView))]

NoStats == [fileCount |-> 0, totalComments |-> 0, unresolvedComments |-> 0,
            lastCommentTime |-> NoTime, hasUnreadComments |-> FALSE]

\* one project's callback before its first await
NewPipe == [pc |-> "files", projectFiles |-> <<>>, pending |-> {},
            allComments |-> <<>>, lastViewedAt |-> Epoch, result |-> NoStats]

IdleAgg == [pc |-> "idle", userId |-> Null, pipes |-> [p \in {} |-> NewPipe]]

NoResponse == [userId |-> Null, projects |-> [p \in {} |-> NoStats]]

\* getProjectsWithCommentStats(u): userProjects = await getProjectsByUserId(u),
\* then one callback per project is started (Promise.all over userProjects.map)
GetStatsStart(u) ==
    /\ agg.pc = "idle"
    /\ stats = NoResponse
    /\ agg' = [pc |-> "run", userId |-> u,
               pipes |-> [p \in {x.id : x \in GetProjectsByUserId(u)} |-> NewPipe]]
    /\ UNCHANGED <<now, stats, storeVars, ledgerVars, treeVars, res, viewVars, clientVars>>

\* a callback's `projectFiles = await getFilesByProjectId(project.id)`; the
\* per-file comment queries are issued next (none for a project without files)
PipeFiles(p) ==
    /\ agg.pc = "run"
    /\ p \in DOMAIN agg.pipes
    /\ agg.pipes[p].pc = "files"
    /\ \E fs \in GetFilesByProjectId(p) :
          agg' = [agg EXCEPT !.pipes[p] =
                    [pc |-> IF Len(fs) = 0 THEN "view" ELSE "comments",
                     projectFiles |-> fs,
                     pending |-> 1..Len(fs),
                     allComments |-> [i \in 1..Len(fs) |-> <<>>],
                     lastViewedAt |-> Epoch,
                     result |-> NoStats]]
    /\ UNCHANGED <<now, stats, storeVars, ledgerVars, treeVars, res, viewVars, clientVars>>

\* one getCommentsByFileId(file.id) of the inner Promise.all resolves; when the
\* last one has, the callback goes on to its getProjectView
PipeComments(p, i) ==
    /\ agg.pc = "run"
    /\ p \in DOMAIN agg.pipes
    /\ agg.pipes[p].pc = "comments"
    /\ i \in agg.pipes[p].pending
    /\ \E cs \in GetCommentsByFileId(agg.pipes[p].projectFiles[i].id) :
          agg' = [agg EXCEPT !.pipes[p].allComments[i] = cs,
                             !.pipes[p].pending = @ \ {i},
                             !.pipes[p].pc = IF agg.pipes[p].pending = {i}
                                             THEN "view" ELSE "comments"]
    /\ UNCHANGED <<now, stats, storeVars, ledgerVars, treeVars, res, viewVars, clientVars>>

\* `projectView = await getProjectView(userId, project.id)` resolves and the
\* callback returns its object
PipeView(p) ==
    /\ agg.pc = "run"
    /\ p \in DOMAIN agg.pipes
    /\ agg.pipes[p].pc = "view"
    /\ \E projectView \in GetProjectView(agg.userId, p) :
          LET pipe == agg.pipes[p]
              flatComments == Flat(pipe.allComments, Len(pipe.projectFiles))
          IN agg' = [agg EXCEPT !.pipes[p].pc = "done",
                                !.pipes[p].lastViewedAt = LastViewedAt(projectView),
                                !.pipes[p].result =
                                    ProjectStats(pipe.projectFiles, flatComments, projectView)]
    /\ UNCHANGED <<now, stats, storeVars, ledgerVars, treeVars, res, viewVars, clientVars>>

\* the outer Promise.all resolves: return projectsWithStats
GetStatsReturn ==
    /\ agg.pc = "run"
    /\ \A p \in DOMAIN agg.pipes : agg.pipes[p].pc = "done"
    /\ stats' = [userId |-> agg.userId,
                 projects |-> [p \in DOMAIN agg.pipes |-> agg.pipes[p].result]]
    /\ agg' = IdleAgg
    /\ UNCHANGED <<now, storeVars, ledgerVars, treeVars, res, viewVars, clientVars>>

----------------------------------------------------------------------------
(* buildCommentTree                                                        *)

\* The nodes are named by their ids: the returned array `roots` is a sequence
\* of ids and `replies` gives each node of the map its replies array.

Range(s) == {s[i] : i \in 1..Len(s)}

\* map.get(id), for an id the map has: the comment of that id (the last one
\* set, would ids repeat)
MapGet(cs, id) == cs[CHOOSE i \in 1..Len(cs) : cs[i].id = id /\ \A j \in (i+1)..Len(cs) : cs[j].id # id]

\* map.get(comment.id) for each comment of an array, in its order
Nodes(cs) == [i \in 1..Len(cs) |-> cs[i].id]

\* the second loop pushing every comment to roots, whatever its parentId
RootsPushedEvery(cs) == Nodes(cs)

\* second loop, `else` branch: roots.push for a comment with a falsy parentId
RootsPushed(cs) == Nodes(SelectSeq(cs, LAMBDA c : c.parentId = NoId))

\* second loop, `if (parent)` branch: parent.replies.push for a comment whose
\* parentId the map has; a comment whose parentId the map lacks is pushed nowhere
RepliesPushed(cs, id) ==
    Nodes(SelectSeq(cs, LAMBDA c : c.parentId # NoId /\ c.parentId = id))

\* the array left as it is
Unsorted(ids, cs) == ids

\* the array sorted with the comparator turned around
RECURSIVE SortedDescending(_, _)
SortedDescending(ids, cs) ==
    IF ids = <<>> THEN <<>>
    ELSE LET rest == SortedDescending(SubSeq(ids, 1, Len(ids) - 1), cs)
             x == ids[Len(ids)]
             k == Cardinality({i \in 1..Len(rest) :
                                MapGet(cs, rest[i]).createdAt >= MapGet(cs, x).createdAt})
         IN SubSeq(rest, 1, k) \o <<x>> \o SubSeq(rest, k + 1, Len(rest))

\* array.sort((a, b) => time(a.createdAt) - time(b.createdAt)): Array.prototype.sort
\* is stable, so comments of equal createdAt keep their order
RECURSIVE SortByCreatedAt(_, _)
SortByCreatedAt(ids, cs) ==
    IF ids = <<>> THEN <<>>
    ELSE LET rest == SortByCreatedAt(SubSeq(ids, 1, Len(ids) - 1), cs)
             x == ids[Len(ids)]
             k == Cardinality({i \in 1..Len(rest) :
                                MapGet(cs, rest[i]).createdAt <= MapGet(cs, x).createdAt})
         IN SubSeq(rest, 1, k) \o <<x>> \o SubSeq(rest, k + 1, Len(rest))

\* the nodes roots.forEach(sortReplies) visits within `depth` nested calls
RECURSIVE Visited(_, _, _)
Visited(cs, from, depth) ==
    IF depth = 0 THEN from
    ELSE Visited(cs, from \cup UNION {Range(RepliesPushed(cs, id)) : id \in from}, depth - 1)

\* sortReplies comes back to a node it is still working on: it recurses until
\* the stack overflows
Overflows(cs) ==
    \E id \in Visited(cs, Range(RootsPushed(cs)), Len(cs)) :
        id \in Visited(cs, Range(RepliesPushed(cs, id)), Len(cs))

\* buildCommentTree(comments)
BuildCommentTree(cs) ==
    LET visited == Visited(cs, Range(RootsPushed(cs)), Len(cs))
    IN [roots |-> SortByCreatedAt(RootsPushed(cs), cs),
        replies |-> [id \in {cs[i].id : i \in 1..Len(cs)} |->
                       IF id \in visited
                       THEN SortByCreatedAt(RepliesPushed(cs, id), cs)
                       ELSE RepliesPushed(cs, id)],
        threw |-> Overflows(cs),
        called |-> TRUE]

\* a component calls buildCommentTree on the comments it was given
BuildTree ==
    /\ ~treeOutput.called
    /\ treeOutput' = BuildCommentTree(treeInput)
    /\ UNCHANGED <<now, treeInput, storeVars, ledgerVars, aggVars, res, viewVars, clientVars>>

\* CommentSidebar of a file: its query fetches GET /api/files/:fileId/comments
\* (getCommentsByFileId) and ThreadedCommentList calls buildCommentTree on
\* the array that came back
CommentSidebar(fileId) ==
    /\ \E cs \in GetCommentsByFileId(fileId) :
          /\ treeInput' = cs
          /\ treeOutput' = BuildCommentTree(cs)
    /\ UNCHANGED <<now, storeVars, ledgerVars, aggVars, res, viewVars, clientVars>>

----------------------------------------------------------------------------
(* The pins: ImageWithComments, PDFWithComments, VideoWithComments and     *)
(* ThreadedCommentList, each rendering the Comment[] of one file           *)

\* the overlay filter that looks at positionX alone
RootCommentsByX(cs) ==
    SortByCreatedAt(Nodes(SelectSeq(cs, LAMBDA c :
        c.parentId = NoId /\ c.positionX # NullInt)), cs)

\* the overlay that keeps the order of the array it was given
RootCommentsUnsorted(cs) ==
    Nodes(SelectSeq(cs, LAMBDA c :
        c.parentId = NoId /\ c.positionX # NullInt /\ c.positionY # NullInt))

\* ImageWithComments.rootComments: (comments || []).filter(!parentId &&
\* positionX !== null && positionY !== null).sort(by createdAt)
RootComments(cs) ==
    SortByCreatedAt(Nodes(SelectSeq(cs, LAMBDA c :
        c.parentId = NoId /\ c.positionX # NullInt /\ c.positionY # NullInt)), cs)

\* PDFWithComments.rootCommentsForPage: comments.filter(!parentId &&
\* page === currentPage && positionX !== null && positionY !== null).sort(by createdAt)
RootCommentsForPage(cs, page) ==
    SortByCreatedAt(Nodes(SelectSeq(cs, LAMBDA c :
        /\ c.parentId = NoId
        /\ c.page = page
        /\ c.positionX # NullInt
        /\ c.positionY # NullInt)), cs)

\* PDFWithComments.allRootComments: comments.filter(!parentId && page !== null)
\* .sort(by createdAt)
AllRootComments(cs) ==
    SortByCreatedAt(Nodes(SelectSeq(cs, LAMBDA c :
        c.parentId = NoId /\ c.page # NullInt)), cs)

\* the search that finds nothing
FindIndexNever(ids, id) == -1

\* array.findIndex(c => c.id === id): the first index, from 0, or -1
FindIndex(ids, id) ==
    IF \E i \in 1..Len(ids) : ids[i] = id
    THEN (CHOOSE i \in 1..Len(ids) : ids[i] = id /\ \A j \in 1..(i - 1) : ids[j] # id) - 1
    ELSE -1

\* array.sort((a, b) => (a.timestamp || 0) - (b.timestamp || 0)), stable
RECURSIVE SortByTimestamp(_, _)
SortByTimestamp(ids, cs) ==
    IF ids = <<>> THEN <<>>
    ELSE LET rest == SortByTimestamp(SubSeq(ids, 1, Len(ids) - 1), cs)
             x == ids[Len(ids)]
             k == Cardinality({i \in 1..Len(rest) :
                                MapGet(cs, rest[i]).timestamp <= MapGet(cs, x).timestamp})
         IN SubSeq(rest, 1, k) \o <<x>> \o SubSeq(rest, k + 1, Len(rest))

\* VideoWithComments.timestampComments: comments.filter(timestamp !== null &&
\* !parentId).sort(by timestamp)
TimestampComments(cs) ==
    SortByTimestamp(Nodes(SelectSeq(cs, LAMBDA c :
        c.timestamp # NullInt /\ c.parentId = NoId)), cs)

\* ThreadedCommentList.positionedRoots: commentTree.filter(positionX !== null
\* && positionY !== null), commentTree being buildCommentTree(comments)
PositionedRoots(cs, commentTree) ==
    SelectSeq(commentTree.roots, LAMBDA id :
        MapGet(cs, id).positionX # NullInt /\ MapGet(cs, id).positionY # NullInt)

\* the comments renderComment draws for a list of roots: each root and, through
\* comment.replies.map(renderComment), everything nested below it
RECURSIVE RenderedThread(_, _, _)
RenderedThread(commentTree, from, depth) ==
    IF depth = 0 THEN from
    ELSE RenderedThread(commentTree,
                        from \cup UNION {Range(commentTree.replies[n]) : n \in from},
                        depth - 1)

\* what the components draw from the comments cs with currentPage = page:
\*   imagePins   ImageWithComments: a CommentPin of number idx + 1 for each of rootComments
\*   pdfPins     PDFWithComments: a badge of number globalIndex + 1 for each of
\*               rootCommentsForPage, globalIndex its index in allRootComments
\*   numbered    PDFWithComments.allRootComments, which the numbers are drawn from
\*   timeline    VideoWithComments: the Comments Timeline entries
\*   thread      ThreadedCommentList: renderComment(comment, 0, index + 1) for
\*               each of positionedRoots
\*   shown       ThreadedCommentList: every comment renderComment has drawn
Render(cs, page) ==
    LET rootComments == RootComments(cs)
        rootCommentsForPage == RootCommentsForPage(cs, page)
        allRootComments == AllRootComments(cs)
        commentTree == BuildCommentTree(cs)
        positionedRoots == PositionedRoots(cs, commentTree)
    IN [rendered |-> TRUE,
        imagePins |-> [idx \in 1..Len(rootComments) |->
                         [id |-> rootComments[idx], number |-> (idx - 1) + 1]],
        pdfPins |-> [i \in 1..Len(rootCommentsForPage) |->
                       [id |-> rootCommentsForPage[i],
                        number |-> FindIndex(allRootComments, rootCommentsForPage[i]) + 1]],
        numbered |-> allRootComments,
        timeline |-> TimestampComments(cs),
        thread |-> [index \in 1..Len(positionedRoots) |->
                      [id |-> positionedRoots[index], number |-> (index - 1) + 1]],
        shown |-> RenderedThread(commentTree, Range(positionedRoots), Len(cs))]

\* the components render the comments they were given
RenderFile ==
    /\ ~screen.rendered
    /\ screen' = Render(viewComments, currentPage)
    /\ UNCHANGED <<now, storeVars, ledgerVars, aggVars, treeVars, res, viewComments, currentPage, clientVars>>

\* the ChevronRight button: setCurrentPage(currentPage + 1), and the render
\* the new state brings
NextPage ==
    /\ screen.rendered
    /\ currentPage < MaxPage
    /\ currentPage' = currentPage + 1
    /\ screen' = Render(viewComments, currentPage + 1)
    /\ UNCHANGED <<now, storeVars, ledgerVars, aggVars, treeVars, res, viewComments, clientVars>>

\* the ChevronLeft button, disabled on page 1:
\* setCurrentPage(Math.max(1, currentPage - 1)), and the render it brings
PreviousPage ==
    /\ screen.rendered
    /\ currentPage # 1
    /\ LET page == IF currentPage - 1 > 1 THEN currentPage - 1 ELSE 1
       IN /\ currentPage' = page
          /\ screen' = Render(viewComments, page)
    /\ UNCHANGED <<now, storeVars, ledgerVars, aggVars, treeVars, res, viewComments, clientVars>>

----------------------------------------------------------------------------
(* Click-to-comment on an image: ProjectAssetDetail, ImageWithComments and *)
(* CommentModal.  A percentage (xPercent, yPercent, a pin's place) is kept *)
(* as the integer 200 times it, so 1 is 0.005% and 20000 is 100%.          *)

\* the truthiness of an optional number: undefined and 0 are falsy
Truthy(n) == n # NullInt /\ n # 0

\* Math.round(percent * 100), ties rounded up
MathRound100(percent) == (percent + 1) \div 2

\* CommentModal.handleSubmit: `xPercent ? Math.round(xPercent * 100) : undefined`
PositionOf(percent) == IF Truthy(percent) THEN MathRound100(percent) ELSE NullInt

\* ImageWithComments' pin of a comment: xPercent={(comment.positionX || 0) / 100}
PinPercent(position) == 2 * (IF Truthy(position) THEN position ELSE 0)

\* ImageWithComments.handleClick at (xPercent, yPercent) of the image, and
\* ProjectAssetDetail's onImageClick: setModal({ open: true, xPercent, yPercent })
HandleClick(xPercent, yPercent) ==
    /\ ~modal.open
    /\ modal' = [open |-> TRUE, xPercent |-> xPercent, yPercent |-> yPercent]
    /\ UNCHANGED <<now, storeVars, ledgerVars, aggVars, treeVars, res, viewVars, projectsQuery>>

\* CommentModal.handleSubmit without onSubmit, the form holding a name and a
\* comment: commentData is built and createCommentMutation posts it to
\* POST /api/comments
HandleSubmit(fileId, form) ==
    /\ modal.open
    /\ PostComments([fileId |-> fileId, parentId |-> NoId,
                     name |-> form.name, content |-> form.comment, tag |-> "To Do",
                     positionX |-> PositionOf(modal.xPercent),
                     positionY |-> PositionOf(modal.yPercent),
                     timestamp |-> NullInt, page |-> NullInt])

\* ProjectAssetDetail's query ["comments", fileId] fetches
\* GET /api/files/:fileId/comments and ImageWithComments renders the array
ProjectAssetDetail(fileId) ==
    /\ \E cs \in GetCommentsByFileId(fileId) :
          /\ viewComments' = cs
          /\ screen' = Render(cs, currentPage)
    /\ UNCHANGED <<now, storeVars, ledgerVars, aggVars, treeVars, res, currentPage, clientVars>>

\* GET /api/projects answers: res.json(projectsWithStats), which is the data
\* of the Projects page's query ["/api/projects"]
SendStats ==
    /\ agg.pc = "idle"
    /\ stats # NoResponse
    /\ stats' = NoResponse
    /\ projectsQuery' = "fresh"
    /\ UNCHANGED <<now, agg, storeVars, ledgerVars, treeVars, res, viewVars, modal>>

\* POST /api/projects/:id/viewed answers: res.json({ success: true }), and
\* markProjectViewed's onSuccess invalidates ["/api/projects"]
SendViewed(c) ==
    /\ upv[c].pc = "done"
    /\ upv' = [upv EXCEPT ![c] = IdleCall]
    /\ projectsQuery' = "stale"
    /\ UNCHANGED <<now, projectViews, storeVars, aggVars, treeVars, res, viewVars, modal>>

\* the clock advances
Tick ==
    /\ now < MaxTime
    /\ now' = now + 1
    /\ UNCHANGED <<storeVars, ledgerVars, aggVars, treeVars, res, viewVars, clientVars>>

----------------------------------------------------------------------------
(* Specifications                                                          *)

\* an empty database and an idle server
InitServer(calls) ==
    /\ now = 1
    /\ files = {}
    /\ nextFileId = 1
    /\ comments = {}
    /\ nextCommentId = 1
    /\ projectViews = {}
    /\ upv = [c \in calls |-> IdleCall]
    /\ agg = IdleAgg
    /\ stats = NoResponse
    /\ treeInput = <<>>
    /\ treeOutput = NoTree
    /\ res = NoAnswer
    /\ viewComments = <<>>
    /\ currentPage = 1
    /\ screen = NoScreen
    /\ projectsQuery = "stale"
    /\ modal = NoModal

\* the view ledger alone: POST /api/projects/:id/viewed of the hardcoded user
\* for any project, MaxCalls of them in flight at once
InitLedger == InitServer(1..MaxCalls)

NextLedger ==
    \/ Tick
    \/ \E c \in DOMAIN upv, p \in ProjectIds : UpdateProjectViewRead(c, RouteUser, p)
    \/ \E c \in DOMAIN upv : UpdateProjectViewWrite(c)
    \/ \E c \in DOMAIN upv : SendViewed(c)

SpecLedger == InitLedger /\ [][NextLedger]_vars

\* no request is being served or waiting for its answer
Quiet ==
    /\ agg.pc = "idle"
    /\ stats = NoResponse
    /\ res = NoAnswer
    /\ \A c \in DOMAIN upv : upv[c].pc = "idle"

\* the server and one client that sends each request after the answer to the
\* one before: every handler of routes.ts that touches files, comments or
\* project_views, from an empty database
Init == InitServer({1})

Next ==
    \/ Tick
    \/ \E p \in ProjectIds : Quiet /\ CreateFile(p, "image/png")
    \/ \E f \in 1..MaxFiles : Quiet /\ DeleteFile(f)
    \/ \E f \in 1..MaxFiles, tag \in {Null, "Resolved"} :
          Quiet /\ PostComments([fileId |-> f, parentId |-> NoId, name |-> "Ann",
                                 content |-> "hi", tag |-> tag,
                                 positionX |-> NullInt, positionY |-> NullInt,
                                 timestamp |-> NullInt, page |-> NullInt])
    \/ \E c \in 1..MaxComments : Quiet /\ DeleteComments(c)
    \/ ReadAnswer
    \/ \E p \in ProjectIds : Quiet /\ UpdateProjectViewRead(1, RouteUser, p)
    \/ UpdateProjectViewWrite(1)
    \/ Quiet /\ GetStatsStart(RouteUser)
    \/ \E p \in ProjectIds : PipeFiles(p)
    \/ \E p \in ProjectIds, i \in 1..MaxFiles : PipeComments(p, i)
    \/ \E p \in ProjectIds : PipeView(p)
    \/ GetStatsReturn
    \/ SendStats
    \/ SendViewed(1)

Spec == Init /\ [][Next]_vars

\* tables the server can have got into: up to MaxFiles files, each in either
\* project or deleted again; up to MaxAggComments comments, created in the
\* order of their ids, on file ids whether or not the file still exists
AggFileSets ==
    {{[id |-> i, projectId |-> where[i], mimeType |-> "image/png"]
        : i \in {j \in 1..MaxFiles : where[j] # Null}}
       : where \in [1..MaxFiles -> ProjectIds \cup {Null}]}

AggCommentSets ==
    UNION {{{[id |-> i, fileId |-> f[i], parentId |-> NoId, name |-> "Ann", content |-> "hi",
                tag |-> t[i], positionX |-> NullInt, positionY |-> NullInt,
                timestamp |-> NullInt, page |-> NullInt, createdAt |-> at[i]]
               : i \in 1..n}
             : f \in [1..n -> 1..MaxFiles], t \in [1..n -> Tags],
               at \in {a \in [1..n -> 1..MaxAggTime] : \A i, j \in 1..n : i < j => a[i] <= a[j]}}
           : n \in 0..MaxAggComments}

\* project_views as the ledger leaves it: no row, one row, or the two rows of
\* two racing first views, for p1; no row for p2
AggViewSets ==
    {{}}
    \cup {{[id |-> <<1, RouteUser, "p1">>, userId |-> RouteUser, projectId |-> "p1",
            lastViewedAt |-> t]} : t \in 1..MaxAggTime}
    \cup {{[id |-> <<1, RouteUser, "p1">>, userId |-> RouteUser, projectId |-> "p1",
            lastViewedAt |-> 1],
           [id |-> <<2, RouteUser, "p1">>, userId |-> RouteUser, projectId |-> "p1",
            lastViewedAt |-> MaxAggTime]}}

\* getProjectsWithCommentStats alone, on any such tables
InitAgg ==
    /\ now = MaxAggTime
    /\ files \in AggFileSets
    /\ nextFileId = MaxFiles + 1
    /\ comments \in AggCommentSets
    /\ nextCommentId = Cardinality(comments) + 1
    /\ projectViews \in AggViewSets
    /\ upv = [c \in 1..MaxCalls |-> IdleCall]
    /\ agg = IdleAgg
    /\ stats = NoResponse
    /\ treeInput = <<>>
    /\ treeOutput = NoTree
    /\ res = NoAnswer
    /\ viewComments = <<>>
    /\ currentPage = 1
    /\ screen = NoScreen
    /\ projectsQuery = "stale"
    /\ modal = NoModal

NextAgg ==
    \/ GetStatsStart(RouteUser)
    \/ \E p \in ProjectIds : PipeFiles(p)
    \/ \E p \in ProjectIds, i \in 1..MaxFiles : PipeComments(p, i)
    \/ \E p \in ProjectIds : PipeView(p)
    \/ GetStatsReturn
    \/ SendStats

SpecAgg == InitAgg /\ [][NextAgg]_vars

\* Comment[] arrays of up to MaxTreeLen comments with different ids, in any
\* order, each parentId null or any id, found in the array or not
TreeInputs ==
    UNION {{cs \in [1..n -> [id : 1..MaxTreeLen, parentId : {NoId} \cup 1..MaxTreeLen,
                              createdAt : 1..MaxTreeTime]] :
               \A i, j \in 1..n : i # j => cs[i].id # cs[j].id}
           : n \in 0..MaxTreeLen}

\* buildCommentTree alone, on any such array
InitTree ==
    /\ now = 1
    /\ files = {}
    /\ nextFileId = 1
    /\ comments = {}
    /\ nextCommentId = 1
    /\ projectViews = {}
    /\ upv = [c \in 1..MaxCalls |-> IdleCall]
    /\ agg = IdleAgg
    /\ stats = NoResponse
    /\ treeInput \in TreeInputs
    /\ treeOutput = NoTree
    /\ res = NoAnswer
    /\ viewComments = <<>>
    /\ currentPage = 1
    /\ screen = NoScreen
    /\ projectsQuery = "stale"
    /\ modal = NoModal

NextTree == BuildTree

SpecTree == InitTree /\ [][NextTree]_vars

\* the bodies sent to the comment routes: fileId, name and content given or
\* missing, name and content possibly the empty string, a parentId or none
CommentBodies ==
    [fileId : {NoId, 1}, parentId : {NoId} \cup 1..MaxComments,
     name : {Null, "", "Ann"}, content : {Null, "", "hi"}, tag : {Null},
     positionX : {NullInt}, positionY : {NullInt}, timestamp : {NullInt}, page : {NullInt}]

\* the comment routes alone, from an empty table, one request after the other
InitComments == InitServer({1})

NextComments ==
    \/ Tick
    \/ \E body \in CommentBodies : Quiet /\ PostComments(body)
    \/ \E body \in CommentBodies : Quiet /\ PostFileComments(1, body)
    \/ \E id \in 1..MaxComments : Quiet /\ DeleteComments(id)
    \/ ReadAnswer

SpecComments == InitComments /\ [][NextComments]_vars

\* the bodies the comment sidebar's users send: a comment or a reply on file 1,
\* with no tag, one of the three tags of the schema's remark, or another string
ThreadBodies ==
    [fileId : {1}, parentId : {NoId} \cup 1..MaxComments,
     name : {"Ann"}, content : {"hi"}, tag : {Null, "Resolved", "Urgent"},
     positionX : {NullInt}, positionY : {NullInt}, timestamp : {NullInt}, page : {NullInt}]

\* comments and replies of one file created and deleted, and the sidebar
\* showing the thread, one request after the other
InitThread == InitServer({1})

NextThread ==
    \/ Tick
    \/ \E body \in ThreadBodies : Quiet /\ PostComments(body)
    \/ \E id \in 1..MaxComments : Quiet /\ DeleteComments(id)
    \/ ReadAnswer
    \/ Quiet /\ CommentSidebar(1)

SpecThread == InitThread /\ [][NextThread]_vars

\* getFileType(mimeType): startsWith("image/"), startsWith("video/"),
\* === "application/pdf", else "other"; over the mime types of MediaFiles
GetFileType(mimeType) ==
    IF mimeType \in {"image/png"} THEN "image"
    ELSE IF mimeType \in {"video/mp4"} THEN "video"
    ELSE IF mimeType = "application/pdf" THEN "pdf"
    ELSE "other"

\* one uploaded file of each media type, all in project p1
MediaFiles ==
    {[id |-> 1, projectId |-> "p1", mimeType |-> "image/png"],
     [id |-> 2, projectId |-> "p1", mimeType |-> "video/mp4"],
     [id |-> 3, projectId |-> "p1", mimeType |-> "application/pdf"],
     [id |-> 4, projectId |-> "p1", mimeType |-> "text/plain"]}

\* the anchor fields a body can carry: each given or not, positionX and
\* positionY together
Anchors ==
    {a \in [positionX : {NullInt, 50}, positionY : {NullInt, 50},
            timestamp : {NullInt, 7}, page : {NullInt, 1}] :
        (a.positionX = NullInt) = (a.positionY = NullInt)}

\* the bodies of root comments on any of the files, with any of the anchors
AnchorBodies ==
    {[fileId |-> f.id, parentId |-> NoId, name |-> "Ann", content |-> "hi", tag |-> Null,
      positionX |-> a.positionX, positionY |-> a.positionY,
      timestamp |-> a.timestamp, page |-> a.page] : f \in MediaFiles, a \in Anchors}

\* comments created on the files of each media type, one request after the other
InitAnchors ==
    /\ now = 1
    /\ files = MediaFiles
    /\ nextFileId = Cardinality(MediaFiles) + 1
    /\ comments = {}
    /\ nextCommentId = 1
    /\ projectViews = {}
    /\ upv = [c \in {1} |-> IdleCall]
    /\ agg = IdleAgg
    /\ stats = NoResponse
    /\ treeInput = <<>>
    /\ treeOutput = NoTree
    /\ res = NoAnswer
    /\ viewComments = <<>>
    /\ currentPage = 1
    /\ screen = NoScreen
    /\ projectsQuery = "stale"
    /\ modal = NoModal

NextAnchors ==
    \/ Tick
    \/ \E body \in AnchorBodies : Quiet /\ PostComments(body)
    \/ \E body \in AnchorBodies : Quiet /\ PostFileComments(body.fileId, body)
    \/ ReadAnswer

SpecAnchors == InitAnchors /\ [][NextAnchors]_vars

\* where a click can land, along either axis: the left or top edge, half a
\* hundredth and a hundredth of a percent from it, and the far edge
ClickPercents == {0, 1, 2, 20000}

\* one image file shown by ProjectAssetDetail, clicked and commented on
InitClick ==
    /\ now = 1
    /\ files = {[id |-> 1, projectId |-> "p1", mimeType |-> "image/png"]}
    /\ nextFileId = 2
    /\ comments = {}
    /\ nextCommentId = 1
    /\ projectViews = {}
    /\ upv = [c \in {1} |-> IdleCall]
    /\ agg = IdleAgg
    /\ stats = NoResponse
    /\ treeInput = <<>>
    /\ treeOutput = NoTree
    /\ res = NoAnswer
    /\ viewComments = <<>>
    /\ currentPage = 1
    /\ screen = NoScreen
    /\ projectsQuery = "stale"
    /\ modal = NoModal

NextClick ==
    \/ Tick
    \/ \E xPercent, yPercent \in ClickPercents : Quiet /\ HandleClick(xPercent, yPercent)
    \/ Quiet /\ HandleSubmit(1, [name |-> "Ann", comment |-> "hi"])
    \/ ReadAnswer
    \/ Quiet /\ ProjectAssetDetail(1)

SpecClick == InitClick /\ [][NextClick]_vars

\* GET /api/projects served while comments of a file of p1 are created and
\* deleted and views of p1 are recorded: the awaits of the handlers interleave
\* freely; a handler answers in the step its storage call returns in
InitRace ==
    /\ now = 1
    /\ files = {[id |-> 1, projectId |-> "p1", mimeType |-> "image/png"]}
    /\ nextFileId = 2
    /\ comments = {}
    /\ nextCommentId = 1
    /\ projectViews = {}
    /\ upv = [c \in {1} |-> IdleCall]
    /\ agg = IdleAgg
    /\ stats = NoResponse
    /\ treeInput = <<>>
    /\ treeOutput = NoTree
    /\ res = NoAnswer
    /\ viewComments = <<>>
    /\ currentPage = 1
    /\ screen = NoScreen
    /\ projectsQuery = "stale"
    /\ modal = NoModal

\* no handler is between its storage call's return and its answer
Answered ==
    /\ stats = NoResponse
    /\ res = NoAnswer
    /\ upv[1].pc # "done"

NextRace ==
    \/ Answered /\ Tick
    \/ \E tag \in {Null, "Resolved"} :
          Answered /\ PostComments([fileId |-> 1, parentId |-> NoId, name |-> "Ann",
                                    content |-> "hi", tag |-> tag,
                                    positionX |-> NullInt, positionY |-> NullInt,
                                    timestamp |-> NullInt, page |-> NullInt])
    \/ \E c \in 1..MaxComments : Answered /\ DeleteComments(c)
    \/ ReadAnswer
    \/ Answered /\ UpdateProjectViewRead(1, RouteUser, "p1")
    \/ Answered /\ UpdateProjectViewWrite(1)
    \/ SendViewed(1)
    \/ Answered /\ GetStatsStart(RouteUser)
    \/ \E p \in ProjectIds : Answered /\ PipeFiles(p)
    \/ \E p \in ProjectIds, i \in 1..MaxFiles : Answered /\ PipeComments(p, i)
    \/ \E p \in ProjectIds : Answered /\ PipeView(p)
    \/ Answered /\ GetStatsReturn
    \/ SendStats

SpecRace == InitRace /\ [][NextRace]_vars

\* what a comment of a file can carry besides its id: a parent or none, and
\* any of the anchor columns set or null, whatever the type of the file; no
\* comment here has both a timestamp and a page
ViewCommentFields ==
    {c \in [parentId : {NoId, 1}, createdAt : 1..MaxViewTime,
            positionX : {NullInt, 50}, positionY : {NullInt, 50},
            timestamp : {NullInt, 7}, page : {NullInt} \cup 1..MaxPage] :
        c.timestamp = NullInt \/ c.page = NullInt}

\* the Comment[] array of n comments with the fields f, the ids naming the
\* comments by their place in the array; createdAt is in any order
ViewInput(n, f) ==
    [i \in 1..n |-> [id |-> i, parentId |-> f[i].parentId, createdAt |-> f[i].createdAt,
                     positionX |-> f[i].positionX, positionY |-> f[i].positionY,
                     timestamp |-> f[i].timestamp, page |-> f[i].page]]

\* the viewer components alone, on any array of up to MaxViewLen comments
InitView ==
    /\ now = 1
    /\ files = {}
    /\ nextFileId = 1
    /\ comments = {}
    /\ nextCommentId = 1
    /\ projectViews = {}
    /\ upv = [c \in 1..MaxCalls |-> IdleCall]
    /\ agg = IdleAgg
    /\ stats = NoResponse
    /\ treeInput = <<>>
    /\ treeOutput = NoTree
    /\ res = NoAnswer
    /\ \E n \in 0..MaxViewLen : \E f \in [1..n -> ViewCommentFields] :
          viewComments = ViewInput(n, f)
    /\ currentPage = 1
    /\ screen = NoScreen
    /\ projectsQuery = "stale"
    /\ modal = NoModal

NextView ==
    \/ RenderFile
    \/ NextPage
    \/ PreviousPage

SpecView == InitView /\ [][NextView]_vars

----------------------------------------------------------------------------
(* Claims about the view ledger                                            *)

\* C1: after any sequence and interleaving of updateProjectView calls, two
\* concurrent calls for the same pair included, project_views holds at most
\* one row for each (userId, projectId) pair.
C1_AtMostOneRowPerPair ==
    \A p \in ProjectIds : Cardinality(ViewRows(RouteUser, p)) <= 1

\* a call's write step for the pair (u, p) that no other write has come in
\* front of: what the call read about the pair is still true of the table
WritesInSuccession(c, u, p) ==
    /\ upv[c].pc = "write"
    /\ upv'[c].pc = "done"
    /\ upv[c].userId = u
    /\ upv[c].projectId = p
    /\ upv[c].existingView = (ViewRows(u, p) # {})

\* C4: updateProjectView(u, p) called in succession, without interleaving,
\* from a table with zero or one row for (u, p): each call, the second one
\* too, leaves exactly one row for (u, p), whose lastViewedAt is the time of
\* that call.
C4_TwiceInSuccession ==
    [][\A c \in DOMAIN upv, p \in ProjectIds :
          (WritesInSuccession(c, RouteUser, p) /\ Cardinality(ViewRows(RouteUser, p)) <= 1)
          => /\ Cardinality(ViewRows(RouteUser, p)') = 1
             /\ \A v \in ViewRows(RouteUser, p)' : v.lastViewedAt = upv[c].lastViewedAt]_vars

\* a first call has inserted the row of a pair and a second call, at a later
\* time, has updated it
C4_Witness ==
    \E c1, c2 \in DOMAIN upv, p \in ProjectIds :
        /\ upv[c1].pc = "done" /\ upv[c1].projectId = p /\ ~upv[c1].existingView
        /\ upv[c2].pc = "done" /\ upv[c2].projectId = p /\ upv[c2].existingView
        /\ now > 1
        /\ ViewRows(RouteUser, p) = {[id |-> <<c1, RouteUser, p>>, userId |-> RouteUser,
                                      projectId |-> p, lastViewedAt |-> now]}

----------------------------------------------------------------------------
(* Claims about getProjectsWithCommentStats                                *)

\* the comments of the files of project p, as the tables have them
CommentsOfProject(p) ==
    {c \in comments : \E f \in files : f.id = c.fileId /\ f.projectId = p}

\* the lastViewedAt values the tables give user u for project p: the epoch
\* when there is no row
ViewTimes(u, p) ==
    IF \E v \in projectViews : v.userId = u /\ v.projectId = p
    THEN {v.lastViewedAt : v \in {w \in projectViews : w.userId = u /\ w.projectId = p}}
    ELSE {0}

\* the call has returned its list, one entry for each project of the user
Returned ==
    /\ stats.userId # Null
    /\ DOMAIN stats.projects = {x.id : x \in {y \in projects : y.userId = stats.userId}}

\* C2: a project with one comment, created at T, and no project_views row
\* for the user is reported with hasUnreadComments = true; once
\* updateProjectView has run at a later time T+1, the next aggregation, no
\* comment having been added, reports false; once a comment has been
\* created at T+2, the next aggregation reports true again.
C2_UnreadScenario ==
    [][(agg.pc = "run" /\ agg'.pc = "idle") =>
         \A p \in DOMAIN stats'.projects :
            LET views == {v \in projectViews : v.userId = agg.userId /\ v.projectId = p}
                unread == stats'.projects[p].hasUnreadComments
            IN /\ (Cardinality(CommentsOfProject(p)) = 1 /\ views = {}) => unread
               /\ (/\ Cardinality(CommentsOfProject(p)) = 1
                   /\ Cardinality(views) = 1
                   /\ \A c \in CommentsOfProject(p), v \in views : c.createdAt < v.lastViewedAt)
                  => ~unread
               /\ (/\ Cardinality(CommentsOfProject(p)) = 2
                   /\ Cardinality(views) = 1
                   /\ \E c, d \in CommentsOfProject(p) : \A v \in views :
                         c.createdAt < v.lastViewedAt /\ v.lastViewedAt < d.createdAt)
                  => unread]_vars

\* the end of the scenario: a comment of time 1, the view of time 2, a comment
\* of time 3, and the answer that p1 has unread comments
C2_Witness ==
    /\ stats.userId = RouteUser
    /\ {c.createdAt : c \in CommentsOfProject("p1")} = {1, 3}
    /\ {v.lastViewedAt : v \in ViewRows(RouteUser, "p1")} = {2}
    /\ stats.projects["p1"].hasUnreadComments

\* C3: hasUnreadComments of a project is true if and only if some comment of a
\* file of the project has createdAt strictly greater than the user's
\* lastViewedAt for the project, a missing project_views row counting as the
\* epoch; a comment created exactly at lastViewedAt is not unread.
C3_UnreadIffNewerComment ==
    stats.userId # Null =>
        /\ Returned
        /\ \A p \in DOMAIN stats.projects :
              \E lastViewedAt \in ViewTimes(stats.userId, p) :
                  stats.projects[p].hasUnreadComments
                     <=> (\E c \in CommentsOfProject(p) : c.createdAt > lastViewedAt)

\* the newest comment of p1 was created exactly at the one lastViewedAt of the
\* user, and p1 is reported as having nothing unread
C3_Witness ==
    /\ Returned
    /\ Cardinality(ViewTimes(stats.userId, "p1")) = 1
    /\ \E c \in CommentsOfProject("p1") : ViewTimes(stats.userId, "p1") = {c.createdAt}
    /\ \A c \in CommentsOfProject("p1") : \A t \in ViewTimes(stats.userId, "p1") : c.createdAt <= t
    /\ ~stats.projects["p1"].hasUnreadComments

\* C9: for every project, totalComments is the number of comments over all of
\* the project's files and unresolvedComments the number of those whose tag is
\* "To Do" or "In Progress".
C9_CommentCounts ==
    stats.userId # Null =>
        /\ Returned
        /\ \A p \in DOMAIN stats.projects :
              /\ stats.projects[p].totalComments = Cardinality(CommentsOfProject(p))
              /\ stats.projects[p].unresolvedComments =
                    Cardinality({c \in CommentsOfProject(p) : c.tag \in {"To Do", "In Progress"}})

\* p1 has two files with comments, a comment of each tag among them, and the
\* call has counted three comments, two of them unresolved
C9_Witness ==
    /\ Returned
    /\ \A f \in 1..2 : \E c \in CommentsOfProject("p1") : c.fileId = f
    /\ {c.tag : c \in CommentsOfProject("p1")} = {"To Do", "In Progress", "Resolved"}
    /\ stats.projects["p1"].totalComments = 3
    /\ stats.projects["p1"].unresolvedComments = 2

\* C10: for every project, lastCommentTime is the greatest createdAt over the
\* comments of the project's files, in whatever order they were fetched, and
\* null exactly when the project has no comment.
C10_LastCommentTimeIsMax ==
    stats.userId # Null =>
        /\ Returned
        /\ \A p \in DOMAIN stats.projects :
              IF CommentsOfProject(p) = {}
              THEN stats.projects[p].lastCommentTime = -1
              ELSE /\ stats.projects[p].lastCommentTime >= 0
                   /\ \E c \in CommentsOfProject(p) :
                         c.createdAt = stats.projects[p].lastCommentTime
                   /\ \A c \in CommentsOfProject(p) :
                         c.createdAt <= stats.projects[p].lastCommentTime

\* p1 has comments of different times in two files, and the call has
\* reported the latest time
C10_Witness ==
    /\ Returned
    /\ \E c, d \in CommentsOfProject("p1") :
          c.fileId # d.fileId /\ c.createdAt < d.createdAt
    /\ Cardinality(CommentsOfProject("p1")) = 3
    /\ stats.projects["p1"].lastCommentTime = MaxAggTime

\* C11: a project with zero files is reported with totalComments = 0,
\* unresolvedComments = 0, lastCommentTime = null and hasUnreadComments =
\* false, whether or not the user has a project_views row for it.
C11_NoFilesNoComments ==
    stats.userId # Null =>
        /\ Returned
        /\ \A p \in DOMAIN stats.projects :
              ({f \in files : f.projectId = p} = {})
              => /\ stats.projects[p].totalComments = 0
                 /\ stats.projects[p].unresolvedComments = 0
                 /\ stats.projects[p].lastCommentTime = NoTime
                 /\ ~stats.projects[p].hasUnreadComments

\* no file is left in either project while comments of deleted files are
\* still stored; p1 has a project_views row and p2 has none, and both are
\* reported empty
C11_Witness ==
    /\ Returned
    /\ files = {}
    /\ Cardinality(comments) = MaxAggComments
    /\ ViewRows(stats.userId, "p1") # {}
    /\ ViewRows(stats.userId, "p2") = {}
    /\ \A p \in {"p1", "p2"} :
          /\ stats.projects[p].fileCount = 0
          /\ stats.projects[p].totalComments = 0
          /\ stats.projects[p].lastCommentTime = NoTime
          /\ ~stats.projects[p].hasUnreadComments

\* the arrays the per-file comment queries of one call may return for the
\* files fs
AllCommentsOf(fs) ==
    {ac \in [1..Len(fs) -> UNION {GetCommentsByFileId(fs[i].id) : i \in 1..Len(fs)}] :
        \A i \in 1..Len(fs) : ac[i] \in GetCommentsByFileId(fs[i].id)}

\* the objects a call for user u may return for project p from the tables
\* as they are
PossibleStats(u, p) ==
    UNION {{ProjectStats(fs, Flat(ac, Len(fs)), view)
              : ac \in AllCommentsOf(fs), view \in GetProjectView(u, p)}
           : fs \in GetFilesByProjectId(p)}

\* C12: getProjectsWithCommentStats is read-only: no step of a call changes
\* files, comments or project_views (the projects are never changed), and a
\* call returns what any other call on the same tables returns.
C12_ReadOnlySameResult ==
    [][/\ (agg' # agg \/ stats' # stats) => UNCHANGED <<files, comments, projectViews>>
       /\ (agg.pc = "run" /\ agg'.pc = "idle") =>
             \A p \in DOMAIN stats'.projects :
                 \A r \in PossibleStats(agg.userId, p) : stats'.projects[p] = r]_vars

----------------------------------------------------------------------------
(* Claims about buildCommentTree                                           *)

InputIds == {treeInput[i].id : i \in 1..Len(treeInput)}

\* the comment of the input array that has this id
InputComment(id) == treeInput[CHOOSE i \in 1..Len(treeInput) : treeInput[i].id = id]

\* the nodes of a returned forest: the roots and everything nested below them
RECURSIVE NodesBelow(_, _, _)
NodesBelow(out, from, depth) ==
    IF depth = 0 THEN from
    ELSE NodesBelow(out, from \cup UNION {Range(out.replies[n]) : n \in from}, depth - 1)

ForestNodes(out) == NodesBelow(out, Range(out.roots), Cardinality(DOMAIN out.replies))

\* the returned value: the roots array and the replies array of every node in it
Forest(out) == [roots |-> out.roots, replies |-> [n \in ForestNodes(out) |-> out.replies[n]]]

\* the places where a comment occurs in the returned forest
Occurrences(out, id) ==
    {<<NoId, i>> : i \in {j \in 1..Len(out.roots) : out.roots[j] = id}}
    \cup UNION {{<<n, i>> : i \in {j \in 1..Len(out.replies[n]) : out.replies[n][j] = id}}
                 : n \in ForestNodes(out)}

Ascending(list) ==
    \A i, j \in 1..Len(list) :
        i < j => InputComment(list[i]).createdAt <= InputComment(list[j]).createdAt

TieFree(list) ==
    \A i, j \in 1..Len(list) :
        i # j => InputComment(list[i]).createdAt # InputComment(list[j]).createdAt

\* the arrays that hold the same comments as the input array, in any order
InputPermutations ==
    {[i \in 1..Len(treeInput) |-> treeInput[f[i]]] : f \in Permutations(1..Len(treeInput))}

\* C5: a comment whose parentId is an id absent from the input appears in the
\* returned forest as a root, under no other node, and no error is raised.
C5_DanglingParentIsRoot ==
    treeOutput.called =>
        /\ ~treeOutput.threw
        /\ \A i \in 1..Len(treeInput) :
              (treeInput[i].parentId # NoId /\ treeInput[i].parentId \notin InputIds)
              => /\ \E j \in 1..Len(treeOutput.roots) : treeOutput.roots[j] = treeInput[i].id
                 /\ \A n \in ForestNodes(treeOutput) :
                       treeInput[i].id \notin Range(treeOutput.replies[n])

\* C6: for any input with unique ids, a comment that is its own parent and a
\* cycle of parents included, the returned forest holds each input comment
\* exactly once and no node of it is below itself.
C6_EachCommentOnceNoCycle ==
    treeOutput.called =>
        /\ \A id \in InputIds : Cardinality(Occurrences(treeOutput, id)) = 1
        /\ \A n \in ForestNodes(treeOutput) :
              n \notin NodesBelow(treeOutput, Range(treeOutput.replies[n]), Len(treeInput))

C8_SortedRootsAndReplies ==
    treeOutput.called =>
        /\ Ascending(treeOutput.roots)
        /\ \A n \in ForestNodes(treeOutput) :
              /\ Range(treeOutput.replies[n]) =
                    {treeInput[i].id : i \in {j \in 1..Len(treeInput) : treeInput[j].parentId = n}}
              /\ \A i, j \in 1..Len(treeOutput.replies[n]) :
                    i # j => treeOutput.replies[n][i] # treeOutput.replies[n][j]
              /\ Ascending(treeOutput.replies[n])

\* a root with two replies of different times, the later one first in the
\* input array and last in the replies list
C8_Witness ==
    /\ treeOutput.called
    /\ Len(treeInput) = 3
    /\ treeInput[3].parentId = NoId
    /\ treeInput[1].parentId = treeInput[3].id /\ treeInput[2].parentId = treeInput[3].id
    /\ treeInput[1].createdAt > treeInput[2].createdAt
    /\ treeOutput.roots = <<treeInput[3].id>>
    /\ treeOutput.replies[treeInput[3].id] = <<treeInput[2].id, treeInput[1].id>>

----------------------------------------------------------------------------
(* Claims about the pins                                                   *)

\* the comments of the rendered array that satisfy a condition are named by
\* their ids
ViewComment(id) == MapGet(viewComments, id)

ViewRoots == {c \in Range(viewComments) : c.parentId = NoId}

PinIds(pins) == {pins[i].id : i \in 1..Len(pins)}

HasImageAnchor(c) == c.positionX # NullInt /\ c.positionY # NullInt

HasNoAnchor(c) ==
    c.positionX = NullInt /\ c.positionY = NullInt /\ c.timestamp = NullInt /\ c.page = NullInt

\* C13: the pins are exactly the comments without a parent whose anchor is
\* set: positionX and positionY for an image, timestamp for a video, page for
\* a PDF (and, to be drawn on the page, positionX, positionY and the
\* displayed page); a reply is never a pin, whatever anchor it carries.
C13_EligiblePins ==
    screen.rendered =>
        /\ PinIds(screen.imagePins) = {c.id : c \in {d \in ViewRoots : HasImageAnchor(d)}}
        /\ Len(screen.imagePins) = Cardinality(PinIds(screen.imagePins))
        /\ Range(screen.timeline) = {c.id : c \in {d \in ViewRoots : d.timestamp # NullInt}}
        /\ Len(screen.timeline) = Cardinality(Range(screen.timeline))
        /\ Range(screen.numbered) = {c.id : c \in {d \in ViewRoots : d.page # NullInt}}
        /\ Len(screen.numbered) = Cardinality(Range(screen.numbered))
        /\ PinIds(screen.pdfPins) =
              {c.id : c \in {d \in ViewRoots : d.page = currentPage /\ HasImageAnchor(d)}}
        /\ Len(screen.pdfPins) = Cardinality(PinIds(screen.pdfPins))
        /\ \A c \in Range(viewComments) :
              c.parentId # NoId =>
                  c.id \notin PinIds(screen.imagePins) \cup PinIds(screen.pdfPins)
                               \cup Range(screen.timeline) \cup Range(screen.numbered)

\* a root with position and page is a pin of the image and of the PDF page, a
\* root with a timestamp is in the timeline, and a reply that carries position
\* and the displayed page is no pin
C13_Witness ==
    /\ screen.rendered
    /\ Len(viewComments) = 3
    /\ \E r, v, y \in Range(viewComments) :
          /\ r.parentId = NoId /\ HasImageAnchor(r) /\ r.page = currentPage
          /\ v.parentId = NoId /\ v.timestamp # NullInt
          /\ y.parentId = r.id /\ HasImageAnchor(y) /\ y.page = currentPage
          /\ PinIds(screen.imagePins) = {r.id}
          /\ PinIds(screen.pdfPins) = {r.id}
          /\ Range(screen.timeline) = {v.id}

\* the pins of a list carry the numbers 1..N, in ascending createdAt order
NumberedInOrder(pins) ==
    /\ \A i \in 1..Len(pins) : pins[i].number = i
    /\ \A i, j \in 1..Len(pins) :
          i < j => ViewComment(pins[i].id).createdAt <= ViewComment(pins[j].id).createdAt

\* C14: the pins are numbered 1..N in ascending createdAt order among the
\* eligible root comments, wherever they stand in the array: of C1 (t1, image
\* anchor), C2 (t2 > t1, image anchor) and C3 (no anchor), C1 is pin 1 and C2
\* pin 2, C3 is no pin, for every order of the three in the array.
C14_PinNumbers ==
    screen.rendered =>
        /\ NumberedInOrder(screen.imagePins)
        /\ NumberedInOrder(screen.thread)
        /\ PinIds(screen.imagePins) = {c.id : c \in {d \in ViewRoots : HasImageAnchor(d)}}
        /\ PinIds(screen.thread) = {c.id : c \in {d \in ViewRoots : HasImageAnchor(d)}}
        /\ \A c1, c2, c3 \in Range(viewComments) :
              (/\ Len(viewComments) = 3
               /\ c1.parentId = NoId /\ HasImageAnchor(c1)
               /\ c2.parentId = NoId /\ HasImageAnchor(c2)
               /\ c1.createdAt < c2.createdAt
               /\ HasNoAnchor(c3))
              => /\ screen.imagePins = <<[id |-> c1.id, number |-> 1], [id |-> c2.id, number |-> 2]>>
                 /\ screen.thread = <<[id |-> c1.id, number |-> 1], [id |-> c2.id, number |-> 2]>>

\* the array has C3 first, then C2, then C1: the later comment stands before
\* the earlier one, and the pins are C1 -> 1, C2 -> 2
C14_Witness ==
    /\ screen.rendered
    /\ Len(viewComments) = 3
    /\ HasNoAnchor(viewComments[1]) /\ viewComments[1].parentId = NoId
    /\ viewComments[2].parentId = NoId /\ HasImageAnchor(viewComments[2])
    /\ viewComments[3].parentId = NoId /\ HasImageAnchor(viewComments[3])
    /\ viewComments[3].createdAt < viewComments[2].createdAt
    /\ screen.imagePins = <<[id |-> 3, number |-> 1], [id |-> 2, number |-> 2]>>
    /\ screen.thread = <<[id |-> 3, number |-> 1], [id |-> 2, number |-> 2]>>

\* C15: for a PDF and a fixed comment set, a step to the next or the previous
\* page changes no comment's pin number, and every pin drawn on the displayed
\* page has its number in 1..N, the place of its comment among the N root
\* comments that have a page.
C15_SameNumbersOnEveryPage ==
    [][/\ (screen.rendered /\ screen'.rendered) => screen'.numbered = screen.numbered
       /\ screen'.rendered =>
             \A i \in 1..Len(screen'.pdfPins) :
                 /\ screen'.pdfPins[i].number \in 1..Len(screen'.numbered)
                 /\ screen'.numbered[screen'.pdfPins[i].number] = screen'.pdfPins[i].id]_vars

\* page 2 is displayed after a step from page 1: its one pin carries number 2,
\* number 1 being the pin of an earlier comment of page 1
C15_Witness ==
    /\ screen.rendered
    /\ currentPage = 2
    /\ Len(screen.numbered) = 2
    /\ ViewComment(screen.numbered[1]).page = 1
    /\ ViewComment(screen.numbered[1]).createdAt < ViewComment(screen.numbered[2]).createdAt
    /\ screen.pdfPins = <<[id |-> screen.numbered[2], number |-> 2]>>

\* C16: for every file type and comment set, a root comment's pin number in
\* the media overlay (ImageWithComments, PDFWithComments) is the number the
\* sidebar thread list shows for it, and both number the same comments.
C16_OverlayMatchesSidebar ==
    screen.rendered =>
        /\ screen.imagePins = screen.thread
        /\ \A i \in 1..Len(screen.pdfPins) :
              \E j \in 1..Len(screen.thread) : screen.thread[j] = screen.pdfPins[i]
        /\ \A j \in 1..Len(screen.thread) :
              ViewComment(screen.thread[j].id).page = currentPage
              => \E i \in 1..Len(screen.pdfPins) : screen.pdfPins[i] = screen.thread[j]

\* C17: root comments without an anchor, and all replies, are no pins, and
\* every comment of the file that has no anchor and no parent is drawn by
\* ThreadedCommentList.
C17_GeneralCommentsInThread ==
    screen.rendered =>
        /\ \A c \in Range(viewComments) :
              (HasNoAnchor(c) \/ c.parentId # NoId)
              => c.id \notin PinIds(screen.imagePins) \cup PinIds(screen.pdfPins)
                              \cup Range(screen.timeline)
        /\ \A c \in ViewRoots : HasNoAnchor(c) => c.id \in screen.shown

----------------------------------------------------------------------------
(* Claims about the comment routes                                         *)

\* C18: a POST /api/comments or POST /api/files/:fileId/comments whose
\* content or name is empty is rejected with a validation error and stores no
\* row: no stored comment has an empty content or an empty name.
C18_EmptyContentOrNameRejected ==
    \A c \in comments : c.content # "" /\ c.name # ""

\* a DELETE /api/comments/:id has just been answered
DeleteAnswered == res = NoAnswer /\ res'.route = "DELETE /api/comments/:id"

\* C19: deleting an id that is not, or no longer, in the table succeeds and
\* leaves the table as it is; deleting an id that is there removes that one
\* row and no other.
C19_DeleteIdempotent ==
    [][DeleteAnswered =>
         /\ res'.status = 200
         /\ (\A c \in comments : c.id # res'.id) => comments' = comments
         /\ \A c \in comments : c.id = res'.id => comments' = comments \ {c}]_vars

\* comment 1 and its reply were created and the reply was deleted; a second
\* delete of the reply, now absent, is answered 200 and comment 1 is still there
C19_Witness ==
    /\ res = [route |-> "DELETE /api/comments/:id", id |-> 2, status |-> 200]
    /\ nextCommentId = 3
    /\ {c.id : c \in comments} = {1}

\* C20: no operation changes a stored comment's createdAt, fileId or content:
\* through createComment, deleteComment, updateProjectView and the
\* aggregation, a comment that stays in the table keeps the three.
C20_CommentFieldsImmutable ==
    [][\A c \in comments : \A d \in comments' :
          d.id = c.id => /\ d.createdAt = c.createdAt
                         /\ d.fileId = c.fileId
                         /\ d.content = c.content]_vars

\* comment 1, created at time 1, is still as it was at time 3, after a second
\* comment on its file was created and deleted, the project was viewed and the
\* aggregation has returned
C20_Witness ==
    /\ now = 3
    /\ nextCommentId = 3
    /\ \E c \in comments :
          comments = {c} /\ c.id = 1 /\ c.createdAt = 1 /\ c.fileId = 1 /\ c.content = "hi"
    /\ projectViews # {}
    /\ Returned

----------------------------------------------------------------------------
(* Claims about deleting a comment that has replies                        *)

\* the stored comments whose parent was created and is no longer stored
RepliesOfDeleted ==
    {r \in comments : /\ r.parentId # NoId
                      /\ r.parentId < nextCommentId
                      /\ \A c \in comments : c.id # r.parentId}

\* C21: after deleteComment(c) on a comment that has replies, the replies are
\* still stored (no cascade), and every one of them appears in the forest
\* buildCommentTree builds from the remaining comments, as a new root.
C21_RepliesOfDeletedBecomeRoots ==
    [][/\ DeleteAnswered =>
             \A r \in comments : (r.parentId = res'.id /\ r.id # res'.id) => r \in comments'
       /\ treeOutput' # treeOutput =>
             \A r \in RepliesOfDeleted : r.fileId = 1 => r.id \in Range(treeOutput'.roots)]_vars

----------------------------------------------------------------------------
(* Claims about buildCommentTree's termination                             *)

\* C22: buildCommentTree terminates on every finite input, inputs with a
\* comment that is its own parent or with a longer parentId cycle included: the
\* recursive reply sort never comes back to a node it is working on.
C22_Terminates ==
    treeOutput.called => ~treeOutput.threw

\* buildCommentTree has returned for an input holding a comment that is its
\* own parent and two comments that are each other's parent
C22_Witness ==
    /\ treeOutput.called
    /\ ~treeOutput.threw
    /\ \E i, j, k \in 1..Len(treeInput) :
          /\ treeInput[i].parentId = treeInput[i].id
          /\ j # k
          /\ treeInput[j].parentId = treeInput[k].id
          /\ treeInput[k].parentId = treeInput[j].id

----------------------------------------------------------------------------
(* Claims about the anchors and the tag of a stored comment                *)

\* the media type of the file a comment is on
FileTypeOf(c) ==
    GetFileType((CHOOSE f \in files : f.id = c.fileId).mimeType)

\* C23: after any sequence of createComment calls every stored comment carries
\* only the anchor family of its file's media type: positionX and positionY
\* on an image, timestamp on a video, page with positionX and positionY on a
\* PDF, none on another file; a malformed combination is rejected before
\* persistence.
C23_AnchorsFitMediaType ==
    \A c \in comments :
        (\E f \in files : f.id = c.fileId) =>
            /\ FileTypeOf(c) = "image" => c.timestamp = NullInt /\ c.page = NullInt
            /\ FileTypeOf(c) = "video" =>
                  c.positionX = NullInt /\ c.positionY = NullInt /\ c.page = NullInt
            /\ FileTypeOf(c) = "pdf" => c.timestamp = NullInt
            /\ FileTypeOf(c) = "other" =>
                  /\ c.positionX = NullInt /\ c.positionY = NullInt
                  /\ c.timestamp = NullInt /\ c.page = NullInt

\* C24: every stored comment's tag is one of "To Do", "In Progress" and
\* "Resolved" (a comment created without a tag gets "To Do"), so every
\* comment is unresolved exactly when its tag is not "Resolved".
C24_TagIsOneOfThree ==
    \A c \in comments :
        /\ c.tag \in Tags
        /\ UnresolvedComments(<<c>>) = 1 <=> c.tag # "Resolved"

----------------------------------------------------------------------------
(* Claims about the client's cached project list                           *)

\* C25: the client's cached project-list statistics (query key
\* "/api/projects") are invalidated both after a successful view-marking and
\* after a successful creation of a comment.
C25_ProjectListInvalidated ==
    [][/\ (\E c \in DOMAIN upv : upv[c].pc = "done" /\ upv'[c].pc = "idle")
             => projectsQuery' = "stale"
       /\ (res.status = 201 /\ res' = NoAnswer) => projectsQuery' = "stale"]_vars

----------------------------------------------------------------------------
(* Claims about click-to-comment on an image                               *)

\* C26: a click on an image at (x, y), x and y percentages in [0, 100], x = 0
\* or y = 0 included: the comment is stored with positionX = round(x * 100)
\* and positionY = round(y * 100), both set, and ImageWithComments renders its
\* pin at (positionX / 100, positionY / 100) percent.
C26_ClickStoredAndPinned ==
    [][/\ (modal.open /\ res = NoAnswer /\ res'.status = 201) =>
             \E c \in comments' \ comments :
                /\ c.positionX = MathRound100(modal.xPercent)
                /\ c.positionY = MathRound100(modal.yPercent)
                /\ c.positionX # NullInt /\ c.positionY # NullInt
       /\ (screen'.rendered /\ screen' # screen) =>
             \A i \in 1..Len(viewComments') :
                /\ viewComments'[i].id \in PinIds(screen'.imagePins)
                /\ PinPercent(viewComments'[i].positionX) = 2 * viewComments'[i].positionX
                /\ PinPercent(viewComments'[i].positionY) = 2 * viewComments'[i].positionY]_vars

----------------------------------------------------------------------------
(* Claims about the comments of a deleted file                             *)

\* the stored comments of files that were created and are no longer stored
CommentsOfDeletedFiles ==
    {c \in comments : c.fileId < nextFileId /\ \A f \in files : f.id # c.fileId}

\* C27: after deleteFile(f) the comments of f contribute nothing to any
\* project's aggregation, though deleteFile removes the file row alone: they
\* are not counted and cannot set lastCommentTime or hasUnreadComments.
C27_DeletedFilesCountForNothing ==
    stats.userId # Null =>
        \A p \in DOMAIN stats.projects :
            LET counted == CommentsOfProject(p) \ CommentsOfDeletedFiles
                r == stats.projects[p]
            IN /\ r.totalComments = Cardinality(counted)
               /\ r.unresolvedComments <= Cardinality(counted)
               /\ r.lastCommentTime # NoTime => \E c \in counted : c.createdAt = r.lastCommentTime
               /\ r.hasUnreadComments =>
                     \E c \in counted : \E t \in ViewTimes(stats.userId, p) : c.createdAt > t

\* the only file was deleted, its comment is still stored and was never
\* viewed, and the call has reported no comment, no time and nothing unread
\* for either project
C27_Witness ==
    /\ Returned
    /\ files = {}
    /\ nextFileId > 1
    /\ projectViews = {}
    /\ CommentsOfDeletedFiles # {}
    /\ \A p \in DOMAIN stats.projects :
          /\ stats.projects[p].totalComments = 0
          /\ stats.projects[p].lastCommentTime = NoTime
          /\ ~stats.projects[p].hasUnreadComments

----------------------------------------------------------------------------
(* Claims about the view ledger's writes                                   *)

\* C28: for every (userId, projectId) the stored lastViewedAt never decreases,
\* under any sequence or interleaving of updateProjectView calls whose
\* timestamps are read from a non-decreasing clock.
C28_LastViewedAtNeverDecreases ==
    [][\A v \in projectViews : \A w \in projectViews' :
          w.id = v.id => w.lastViewedAt >= v.lastViewedAt]_vars

\* a write step of call c
Writes(c) == upv[c].pc = "write" /\ upv'[c].pc = "done"

\* C29: updateProjectView(u, p) changes the project_views record of (u, p)
\* and nothing else: the rows of every other pair and all files and comments
\* are as before, so what makes hasUnreadComments of any other project or
\* user is untouched.
C29_OnlyThePairChanges ==
    [][\A c \in DOMAIN upv :
          Writes(c) =>
             /\ \A q \in ProjectIds \ {upv[c].projectId} :
                   ViewRows(upv[c].userId, q)' = ViewRows(upv[c].userId, q)
             /\ {v \in projectViews' : v.userId # upv[c].userId}
                   = {v \in projectViews : v.userId # upv[c].userId}
             /\ UNCHANGED <<files, comments>>]_vars

\* the view of p1 was just updated to the current time while p2's row, a
\* file and a comment are in the tables, p2's row still at its earlier time
C29_Witness ==
    /\ upv[1].pc = "done"
    /\ upv[1].projectId = "p1"
    /\ upv[1].existingView
    /\ \E v \in ViewRows(RouteUser, "p1") : v.lastViewedAt = now
    /\ \E v \in ViewRows(RouteUser, "p2") : v.lastViewedAt < now
    /\ files # {}
    /\ comments # {}

----------------------------------------------------------------------------
(* Claims about the aggregation under concurrent writes                    *)

\* C30: every per-project result of getProjectsWithCommentStats is consistent
\* in itself, also when comments are created or deleted and views recorded
\* while it runs: unresolvedComments <= totalComments, lastCommentTime is null
\* iff totalComments = 0, and hasUnreadComments implies totalComments > 0 and
\* lastCommentTime > the lastViewedAt that was read.
C30_ResultConsistentInItself ==
    /\ \A p \in DOMAIN agg.pipes :
          agg.pipes[p].pc = "done" =>
             LET r == agg.pipes[p].result
             IN /\ r.unresolvedComments <= r.totalComments
                /\ r.lastCommentTime = NoTime <=> r.totalComments = 0
                /\ r.hasUnreadComments =>
                      r.totalComments > 0 /\ r.lastCommentTime > agg.pipes[p].lastViewedAt
    /\ stats.userId # Null =>
          \A p \in DOMAIN stats.projects :
             LET r == stats.projects[p]
             IN /\ r.unresolvedComments <= r.totalComments
                /\ r.lastCommentTime = NoTime <=> r.totalComments = 0
                /\ r.hasUnreadComments => r.totalComments > 0

\* p1's result was made from a comment fetched before it was deleted and from
\* the missing view row read before the view was recorded: one unread comment
\* is reported while the table has no comment and the row's time is not
\* before the comment's
C30_Witness ==
    /\ "p1" \in DOMAIN agg.pipes
    /\ agg.pipes["p1"].pc = "done"
    /\ agg.pipes["p1"].result.totalComments = 1
    /\ agg.pipes["p1"].result.hasUnreadComments
    /\ agg.pipes["p1"].lastViewedAt = Epoch
    /\ comments = {}
    /\ \E v \in ViewRows(RouteUser, "p1") :
          v.lastViewedAt >= agg.pipes["p1"].result.lastCommentTime

====
